---- MODULE Spec2Model ----
(***************************************************************************)
(* Model of the BettlichtSensors usermod                                   *)
(* (usermods/bettlicht-sensors/usermod_bettlicht-sensors.h).               *)
(*                                                                         *)
(* The usermod is one object driven by the host's callbacks: readFromConfig*)
(* and setup at boot, then loop, readFromJsonState and addToConfig.  Each  *)
(* callback is one action.  The host's clock (millis), its brightness      *)
(* globals (bri, briLast), the pins read by digitalRead/analogRead and the *)
(* persisted configuration document are the environment.                   *)
(*                                                                         *)
(* Time is in milliseconds, as in the source.  unsigned long is modelled   *)
(* with ClockBits bits instead of 32, so that the clock can wrap.  Floats  *)
(* (ldrKnownResistor, ldrVoltage) only ever hold whole numbers in this     *)
(* code and are modelled as integers.                                      *)
(***************************************************************************)
EXTENDS Integers, Sequences, FiniteSets, TLC

VARIABLES
    phase,                  \* "boot" (constructed), "loaded" (readFromConfig ran), "running" (setup ran)
    doc,                    \* the persisted "bettlicht-sensors" object of cfg.json
    ldrPins,                \* std::vector<unsigned short>
    pirPins,                \* std::vector<unsigned short>
    ldrThreshold,           \* unsigned int
    stayOnTime,             \* unsigned long, millis
    ldrKnownResistor,       \* float, Ohms
    ldrVoltage,             \* float, Volts
    ldrValues,              \* std::vector<unsigned int>
    pirValues,              \* std::vector<char>
    lastTime,               \* unsigned long
    lastOnManual,           \* boolean
    lastPirTriggeredTime,   \* unsigned long
    bri,                    \* host global: current brightness
    briLast,                \* host global: remembered brightness
    now,                    \* host clock: the value millis() returns
    ticks,                  \* number of clock advances since boot (bounds the model)
    boots,                  \* number of boots so far (bounds the model)
    op,                     \* the host's most recent step: a callback ("poll" / "skip" for loop) or "tick"
    cmds,                   \* the colorUpdated calls made by the most recent callback
    sincePoll,              \* history: ms since the start of the last updateSensors run, -1 if none
    lastOnKind,             \* history: cause of the most recent off-to-on change of bri
    saved,                  \* history: the configuration addToConfig last wrote into doc
    quiet,                  \* environment: no PIR reads 1 and no client sends on = true any more
    arg,                    \* the "on" member handed to readFromJsonState, when the most recent step was that
                            \* call by itself (ReadFromJsonStateCall); "none" otherwise
    ret,                    \* what the callback of the most recent step returned or reported
    sinceMotion,            \* history: ms since motion was last recorded, -1 if never; ClockMod stands for
                            \* "that long or longer"
    offBri                  \* history: brightness before the most recent automatic off, -1 if there was
                            \* none or the host has changed bri or briLast since

vars == <<phase, doc, ldrPins, pirPins, ldrThreshold, stayOnTime, ldrKnownResistor,
          ldrVoltage, ldrValues, pirValues, lastTime, lastOnManual,
          lastPirTriggeredTime, bri, briLast, now, ticks, boots, op, cmds, sincePoll,
          lastOnKind, saved, quiet, arg, ret, sinceMotion, offBri>>

config == <<ldrPins, pirPins, ldrThreshold, stayOnTime, ldrKnownResistor, ldrVoltage>>

\* the configuration as one value
CfgValue(lp, pp, thr, stay, res, volt) ==
    [ldrPins |-> lp, pirPins |-> pp, ldrThreshold |-> thr, stayOnTime |-> stay,
     ldrKnownResistor |-> res, ldrVoltage |-> volt]

NoCfg == CfgValue(<<>>, <<>>, 0, 0, 0, 0)

(***************************************************************************)
(* Bounds of the model.                                                    *)
(***************************************************************************)
ClockBits == 16             \* width of unsigned long in the model
MaxTicks == 3               \* clock advances per boot
MaxBoots == 2               \* boots per behaviour

ClockMod == 2 ^ ClockBits

(***************************************************************************)
(* Program constants.                                                      *)
(***************************************************************************)
LoopInterval == 300                 \* loop(): millis() - lastTime > 300
SetupLdrPin == 32
SetupPirPin == 13
SetupLdrThreshold == 500
SetupStayOnTime == 60000            \* 60*1000
SetupLdrKnownResistor == 100000     \* 10E4
SetupLdrVoltage == 5
DefaultLdrThreshold == 500          \* top["ldrThreshold"] | 500
DefaultLdrVoltage == 5              \* top["ldrVoltage"] | 5.0F
DefaultLdrKnownResistor == 10000    \* top["ldrKnownResistor"] | 10000
DefaultStayOnTime == 500            \* top["stayOnTime"] | 500
UShortMod == 65536                  \* unsigned short: 16 bits
Uninit == -1                        \* a member without initializer, before its first assignment
AdcPrecision == 12                  \* getResistanceFromRawVoltage(ldrKnownResistor, 12, ..)
LongMax == 2147483647               \* long: 32 bits

CALL_MODE_NO_NOTIFY == "CALL_MODE_NO_NOTIFY"

(***************************************************************************)
(* Inputs.                                                                 *)
(***************************************************************************)
BriValues == {0, 128, 255}          \* values of the host's bri / briLast bytes
AnalogValues == {400, 500, 600}     \* analogRead results (12 bit ADC)
TickSteps == {1, LoopInterval, SetupStayOnTime}   \* clock advances between callbacks
HandlerDelays == {0, 1}             \* ms that pass inside updateSensors between its millis() reads
OnFields == {"true", "false", "absent"}           \* the "on" member of a state document

\* what the PIR pins can read, and what clients can send, in the current environment
PirReads(n) == IF quiet THEN [1..n -> {FALSE}] ELSE [1..n -> BOOLEAN]

OnSent == IF quiet THEN OnFields \ {"true"} ELSE OnFields

(***************************************************************************)
(* Text: a std::string is a sequence of one-character strings.             *)
(***************************************************************************)
Digits == <<"0", "1", "2", "3", "4", "5", "6", "7", "8", "9">>

IsDigit(c) == \E d \in 1..10 : Digits[d] = c

DigitVal(c) == (CHOOSE d \in 1..10 : Digits[d] = c) - 1

\* operator<<(unsigned short): the decimal digits of n
RECURSIVE ToDecimal(_)
ToDecimal(n) ==
    IF n < 10 THEN <<Digits[n + 1]>>
    ELSE ToDecimal(n \div 10) \o <<Digits[(n % 10) + 1]>>

\* the serialization loop of addToConfig: each pin, and "," after all but the last
RECURSIVE SerializePins(_)
SerializePins(pins) ==
    IF Len(pins) = 0 THEN <<>>
    ELSE IF Len(pins) = 1 THEN ToDecimal(pins[1])
    ELSE ToDecimal(pins[1]) \o <<",">> \o SerializePins(Tail(pins))

\* index of the first "," of s, 0 if none
FirstComma(s) ==
    IF \E i \in 1..Len(s) : s[i] = ","
    THEN CHOOSE i \in 1..Len(s) : s[i] = "," /\ \A j \in 1..(i - 1) : s[j] # ","
    ELSE 0

\* while(std::getline(stream, s, ',')): the tokens read; an empty stream gives none,
\* so a trailing "," adds no token
RECURSIVE GetLines(_)
GetLines(s) ==
    IF Len(s) = 0 THEN <<>>
    ELSE LET k == FirstComma(s) IN
         IF k = 0 THEN <<s>>
         ELSE <<SubSeq(s, 1, k - 1)>> \o GetLines(SubSeq(s, k + 1, Len(s)))

\* strtoul(s, nullptr, 10) on text without blanks or sign: the value of the leading
\* digits, 0 when there are none
RECURSIVE StrToULFrom(_, _)
StrToULFrom(s, acc) ==
    IF Len(s) = 0 \/ ~IsDigit(s[1]) THEN acc
    ELSE StrToULFrom(Tail(s), acc * 10 + DigitVal(s[1]))

StrToUL(s) == StrToULFrom(s, 0)


\* mutant: the pin numbers are narrowed to a byte
ToByte(n) == n % 256

\* push_back(strtoul(..)) into a std::vector<unsigned short>: the value is narrowed
ToUShort(n) == n % UShortMod

\* the deserialization loop of readFromConfig
ParsePins(s) ==
    LET toks == GetLines(s) IN [i \in 1..Len(toks) |-> ToUShort(StrToUL(toks[i]))]

(***************************************************************************)
(* The persisted document.  keys is the set of members present; a member   *)
(* that is absent holds a filler that is never read.                       *)
(***************************************************************************)
MkDoc(keys, pp, lp, thr, stay, res, volt) ==
    [keys |-> keys, pirPins |-> pp, ldrPins |-> lp, ldrThreshold |-> thr,
     stayOnTime |-> stay, ldrKnownResistor |-> res, ldrVoltage |-> volt]

AllKeys == {"pirPins", "ldrPins", "ldrThreshold", "stayOnTime", "ldrKnownResistor", "ldrVoltage"}

DocNone == MkDoc({}, <<>>, <<>>, 0, 0, 0, 0)
DocSaved == MkDoc(AllKeys, <<"4">>, <<>>, 400, 1000, 4700, 3)

DocChoices == {DocNone, DocSaved}

\* top[key] | dflt
JsonOr(d, key, dflt) == IF key \in d.keys THEN d[key] ELSE dflt

\* top[key] | std::string()
JsonStringOr(d, key) == IF key \in d.keys THEN d[key] ELSE <<>>

(***************************************************************************)
(* What a callback hands back.  defined is FALSE when the C++ standard     *)
(* leaves the value open (undefined behaviour): the model then takes any   *)
(* of the values a build can produce.                                      *)
(***************************************************************************)
Returned(kind, value, defined) == [kind |-> kind, value |-> value, defined |-> defined]

\* a callback that returns nothing (void), or a step that is no callback
NoRet == Returned("void", 0, TRUE)

\* readFromConfig is declared bool and has no return statement: control flows
\* off the end of the function and the caller reads whatever the build left
FallOffEnd == {Returned("bool", v, FALSE) : v \in BOOLEAN}

\* a history of elapsed ms: -1 stays -1, otherwise s more ms, at most cap
Elapse(since, s, cap) ==
    IF since = -1 THEN -1 ELSE IF since + s < cap THEN since + s ELSE cap

(***************************************************************************)
(* Construction: the member initializers of the class.                     *)
(***************************************************************************)
Constructed ==
    /\ ldrPins = <<>>
    /\ pirPins = <<>>
    /\ ldrThreshold = Uninit
    /\ stayOnTime = Uninit
    /\ ldrKnownResistor = Uninit
    /\ ldrVoltage = Uninit
    /\ ldrValues = <<>>
    /\ pirValues = <<>>
    /\ lastTime = 0
    /\ lastOnManual = FALSE
    /\ lastPirTriggeredTime = 0

\* what the host and the histories hold when the device starts
Started ==
    /\ bri \in BriValues
    /\ briLast \in BriValues
    /\ now = 0
    /\ ticks = 0
    /\ boots = 1
    /\ op = "none"
    /\ cmds = <<>>
    /\ sincePoll = -1
    /\ lastOnKind = "none"
    /\ saved = [valid |-> FALSE, cfg |-> NoCfg]
    /\ quiet = FALSE
    /\ arg = "none"
    /\ ret = NoRet
    /\ sinceMotion = -1
    /\ offBri = -1

Init ==
    /\ Constructed
    /\ Started
    /\ phase = "boot"
    /\ doc \in DocChoices

(***************************************************************************)
(* readFromConfig                                                          *)
(***************************************************************************)
\* if(pinsNew.size() > 0) this->pins = pinsNew;
ReplaceIfAny(pinsNew, pins) == IF Len(pinsNew) > 0 THEN pinsNew ELSE pins

readFromConfig(top) ==
    /\ ldrThreshold' = JsonOr(top, "ldrThreshold", DefaultLdrThreshold)
    /\ ldrVoltage' = JsonOr(top, "ldrVoltage", DefaultLdrVoltage)
    /\ ldrKnownResistor' = JsonOr(top, "ldrKnownResistor", DefaultLdrKnownResistor)
    /\ stayOnTime' = JsonOr(top, "stayOnTime", DefaultStayOnTime)
    /\ pirPins' = ReplaceIfAny(ParsePins(JsonStringOr(top, "pirPins")), pirPins)
    /\ ldrPins' = ReplaceIfAny(ParsePins(JsonStringOr(top, "ldrPins")), ldrPins)

\* the host loads the settings once, right after boot and before setup
ReadFromConfig ==
    /\ phase = "boot"
    /\ readFromConfig(doc)
    /\ phase' = "loaded"
    /\ op' = "readFromConfig"
    /\ cmds' = <<>>
    /\ ret' \in FallOffEnd
    /\ arg' = "none"
    /\ UNCHANGED <<doc, ldrValues, pirValues, lastTime, lastOnManual,
                   lastPirTriggeredTime, bri, briLast, now, ticks, boots, sincePoll,
                   lastOnKind, saved, quiet, sinceMotion, offBri>>

(***************************************************************************)
(* setup                                                                   *)
(***************************************************************************)
Setup ==
    /\ phase = "loaded"
    /\ ldrPins' = Append(ldrPins, SetupLdrPin)
    /\ pirPins' = Append(pirPins, SetupPirPin)
    /\ ldrThreshold' = SetupLdrThreshold
    /\ stayOnTime' = SetupStayOnTime
    /\ ldrKnownResistor' = SetupLdrKnownResistor
    /\ ldrVoltage' = SetupLdrVoltage
    /\ phase' = "running"
    /\ op' = "setup"
    /\ cmds' = <<>>
    /\ ret' = NoRet
    /\ arg' = "none"
    /\ UNCHANGED <<doc, ldrValues, pirValues, lastTime, lastOnManual,
                   lastPirTriggeredTime, bri, briLast, now, ticks, boots, sincePoll,
                   lastOnKind, saved, quiet, sinceMotion, offBri>>

(***************************************************************************)
(* updateSensors and loop                                                  *)
(***************************************************************************)
\* mutant: the subtraction is signed, without the wrap of unsigned long
MillisDiffSigned(t, since) == t - since

\* unsigned long subtraction
MillisDiff(t, since) == (t - since) % ClockMod

\* the loop of isLdrTriggered from index i on: true at the first reading below thr
RECURSIVE isLdrTriggeredFrom(_, _, _)
isLdrTriggeredFrom(lv, thr, i) ==
    IF i > Len(lv) THEN FALSE
    ELSE IF lv[i] < thr THEN TRUE
    ELSE isLdrTriggeredFrom(lv, thr, i + 1)

\* mutant: a reading equal to the threshold counts as dark
isLdrTriggeredInclusive(lv, thr) == \E i \in 1..Len(lv) : lv[i] <= thr

isLdrTriggered(lv, thr) == isLdrTriggeredFrom(lv, thr, 1)


\* mutant: "all readings" instead of "some reading", true of an empty list
isPirTriggeredAll(pv) == \A i \in 1..Len(pv) : pv[i]

\* the loop of isPirTriggered from index i on: true at the first reading that is set
RECURSIVE isPirTriggeredFrom(_, _)
isPirTriggeredFrom(pv, i) ==
    IF i > Len(pv) THEN FALSE
    ELSE IF pv[i] THEN TRUE
    ELSE isPirTriggeredFrom(pv, i + 1)

isPirTriggered(pv) == isPirTriggeredFrom(pv, 1)

\* mutant: the timestamp is taken in every poll
NoteMotionAlways(trig, t, last) == t

\* if(isPirTriggered()) lastPirTriggeredTime = millis();
NoteMotion(trig, t, last) == IF trig THEN t ELSE last

\* if(!isOn && isPirTriggered() && isLdrTriggered())
AutoOnCond(isOn, pv, lv, thr) == ~isOn /\ isPirTriggered(pv) /\ isLdrTriggered(lv, thr)


\* mutant: the second rule tests the brightness as the first rule left it
IsOnAtOffRuleFresh(isOn, briNow) == briNow # 0

\* the isOn the second rule reads: the local set before the first rule ran,
\* not the brightness as it is now
IsOnAtOffRule(isOn, briNow) == isOn


\* mutant: the test of lastOnManual is inverted
AutoOffCondInverted(isOn, manual, t, last, stay) ==
    isOn /\ manual /\ MillisDiff(t, last) > stay

\* mutant: the test of lastOnManual is left out
AutoOffCondNoManual(isOn, manual, t, last, stay) ==
    isOn /\ MillisDiff(t, last) > stay

\* mutant: the rule does not wait for stayOnTime
AutoOffCondNoWait(isOn, manual, t, last, stay) == isOn /\ ~manual

\* if(isOn && !lastOnManual && millis() - lastPirTriggeredTime > stayOnTime)
AutoOffCond(isOn, manual, t, last, stay) ==
    isOn /\ ~manual /\ MillisDiff(t, last) > stay


\* mutant: full brightness instead of the remembered one
RestoredBriFull(remembered) == 255

\* bri = briLast;
RestoredBri(remembered) == remembered

\* colorUpdated(CALL_MODE_NO_NOTIFY), made by rule r with the brightness b it leaves
Cmd(r, b) == [rule |-> r, mode |-> CALL_MODE_NO_NOTIFY, bri |-> b]

\* pv, lv: what digitalRead / analogRead return for the pins; d: the time that
\* passes between the millis() of line 63 and the millis() of line 86
updateSensors(pv, lv, d) ==
    LET trig == isPirTriggered(pv)
        lastPir1 == NoteMotion(trig, now, lastPirTriggeredTime)
        isOn == bri # 0
        on == AutoOnCond(isOn, pv, lv, ldrThreshold)
        manual1 == IF on THEN FALSE ELSE lastOnManual
        bri1 == IF on THEN RestoredBri(briLast) ELSE bri
        t2 == (now + d) % ClockMod
        off == AutoOffCond(IsOnAtOffRule(isOn, bri1), manual1, t2, lastPir1, stayOnTime)
    IN  /\ pirValues' = pv
        /\ ldrValues' = lv
        /\ lastPirTriggeredTime' = lastPir1
        /\ lastOnManual' = manual1
        /\ briLast' = IF off THEN bri1 ELSE briLast
        /\ bri' = IF off THEN 0 ELSE bri1
        /\ cmds' = (IF on THEN <<Cmd("on", bri1)>> ELSE <<>>)
                   \o (IF off THEN <<Cmd("off", 0)>> ELSE <<>>)
        /\ op' = "poll"
        /\ now' = t2
        /\ ticks' = ticks + d
        /\ sincePoll' = d
        /\ lastOnKind' = IF bri = 0 /\ bri1 # 0 THEN "auto" ELSE lastOnKind
        /\ sinceMotion' = IF trig THEN d ELSE Elapse(sinceMotion, d, ClockMod)
        /\ offBri' = IF off THEN bri1 ELSE offBri

\* if (millis() - lastTime > 300)
LoopDue(t, last) == MillisDiff(t, last) > LoopInterval

\* lastTime is not assigned: the assignment of line 190 is commented out
Loop ==
    /\ phase = "running"
    /\ IF LoopDue(now, lastTime)
       THEN \E pv \in PirReads(Len(pirPins)) :
            \E lv \in [1..Len(ldrPins) -> AnalogValues] :
            \E d \in HandlerDelays :
                /\ d = 0 \/ ticks < MaxTicks
                /\ updateSensors(pv, lv, d)
       ELSE /\ op' = "skip"
            /\ cmds' = <<>>
            /\ UNCHANGED <<pirValues, ldrValues, lastPirTriggeredTime, lastOnManual,
                           briLast, bri, now, ticks, sincePoll, lastOnKind,
                           sinceMotion, offBri>>
    /\ ret' = NoRet
    /\ arg' = "none"
    /\ UNCHANGED <<phase, doc, config, lastTime, boots, saved, quiet>>

(***************************************************************************)
(* readFromJsonState.  The host applies the "on" member of the document to *)
(* its brightness before it calls the usermods.                            *)
(***************************************************************************)
\* host: on switches a dark light to the remembered brightness, off remembers the
\* brightness and switches to 0
HostApplyOn(on, b, bl) ==
    IF on = "true" /\ b = 0 THEN <<bl, bl>>
    ELSE IF on = "false" /\ b # 0 THEN <<0, b>>
    ELSE <<b, bl>>

\* mutant: the flag is assigned the "on" member, so on = false clears it
readFromJsonStateAssign(on, manual) == on = "true"

\* if(root["on"].as<boolean>() == true) lastOnManual = true;
readFromJsonState(on, manual) == IF on = "true" THEN TRUE ELSE manual

ReadFromJsonState ==
    /\ phase = "running"
    /\ \E on \in OnSent :
        LET host == HostApplyOn(on, bri, briLast) IN
        /\ bri' = host[1]
        /\ briLast' = host[2]
        /\ lastOnManual' = readFromJsonState(on, lastOnManual)
        /\ lastOnKind' = IF bri = 0 /\ host[1] # 0 THEN "manual" ELSE lastOnKind
        /\ offBri' = IF host = <<bri, briLast>> THEN offBri ELSE -1
    /\ op' = "readFromJsonState"
    /\ cmds' = <<>>
    /\ ret' = NoRet
    /\ arg' = "none"
    /\ UNCHANGED <<phase, doc, config, ldrValues, pirValues, lastTime,
                   lastPirTriggeredTime, now, ticks, boots, sincePoll, saved, quiet,
                   sinceMotion>>

\* the usermod's readFromJsonState by itself: the call the host makes once it has
\* dealt with the document's own members
ReadFromJsonStateCall ==
    /\ phase = "running"
    /\ \E on \in OnSent :
        /\ lastOnManual' = readFromJsonState(on, lastOnManual)
        /\ arg' = on
    /\ op' = "readFromJsonStateCall"
    /\ cmds' = <<>>
    /\ ret' = NoRet
    /\ UNCHANGED <<phase, doc, config, ldrValues, pirValues, lastTime,
                   lastPirTriggeredTime, bri, briLast, now, ticks, boots, sincePoll,
                   lastOnKind, saved, quiet, sinceMotion, offBri>>

(***************************************************************************)
(* addToJsonInfo and getAvgLdrResistance.  A float is an exact fraction,   *)
(* whole + num / den with 0 <= num < den, or the IEEE value +infinity or   *)
(* NaN: rounding to 24 bits of mantissa is not modelled.                   *)
(***************************************************************************)
Finite(w, n, d) == [class |-> "finite", whole |-> w, num |-> n, den |-> d]

Infinity == [class |-> "inf", whole |-> 0, num |-> 0, den |-> 1]

NaN == [class |-> "nan", whole |-> 0, num |-> 0, den |-> 1]

\* knownR * (pow(2, precision) / (float)input - 1), for input <= 2^precision;
\* a floating-point division by 0 gives +infinity
getResistanceFromRawVoltage(knownR, precision, input) ==
    IF input = 0 THEN (IF knownR = 0 THEN NaN ELSE Infinity)
    ELSE LET p == knownR * (2 ^ precision - input)
         IN  Finite(p \div input, p % input, input)

\* R2sums += x
FloatAdd(a, b) ==
    IF a.class = "nan" \/ b.class = "nan" THEN NaN
    ELSE IF a.class = "inf" \/ b.class = "inf" THEN Infinity
    ELSE LET n == a.num * b.den + b.num * a.den
             d == a.den * b.den
         IN  Finite(a.whole + b.whole + n \div d, n % d, d)

\* the summation loop of getAvgLdrResistance over the readings from index i on
RECURSIVE R2sumsFrom(_, _, _, _)
R2sumsFrom(lv, knownR, i, acc) ==
    IF i > Len(lv) THEN acc
    ELSE R2sumsFrom(lv, knownR, i + 1,
                    FloatAdd(acc, getResistanceFromRawVoltage(knownR, AdcPrecision, lv[i])))

\* R2sums / this->ldrValues.size(): 0.0 / 0 is NaN
FloatDiv(a, k) ==
    IF a.class = "nan" THEN NaN
    ELSE IF a.class = "inf" THEN Infinity
    ELSE IF k = 0 THEN (IF a.whole = 0 /\ a.num = 0 THEN NaN ELSE Infinity)
    ELSE LET n == (a.whole % k) * a.den + a.num
             d == k * a.den
         IN  Finite(a.whole \div k + n \div d, n % d, d)

\* ret = floor(x) with ret a long: the conversion of +infinity or NaN to long is
\* undefined, and gives one of the values a build can produce
FloorToLong(a) ==
    IF a.class = "finite" THEN {Returned("long", a.whole, TRUE)}
    ELSE {Returned("long", v, FALSE) : v \in {0 - LongMax - 1, 0, LongMax}}

\* the values getAvgLdrResistance can return
getAvgLdrResistance(lv, knownR) ==
    FloorToLong(FloatDiv(R2sumsFrom(lv, knownR, 1, Finite(0, 0, 1)), Len(lv)))

\* uint8_t numPirsTriggered
numPirsTriggered(pv) == Cardinality({i \in 1..Len(pv) : pv[i]}) % 256

AddToJsonInfo ==
    /\ phase = "running"
    /\ \E avg \in getAvgLdrResistance(ldrValues, ldrKnownResistor) :
        ret' = Returned("info", [avg |-> avg.value, pirs |-> numPirsTriggered(pirValues)],
                        avg.defined)
    /\ op' = "addToJsonInfo"
    /\ cmds' = <<>>
    /\ arg' = "none"
    /\ UNCHANGED <<phase, doc, config, ldrValues, pirValues, lastTime, lastOnManual,
                   lastPirTriggeredTime, bri, briLast, now, ticks, boots, sincePoll,
                   lastOnKind, saved, quiet, sinceMotion, offBri>>

(***************************************************************************)
(* addToJsonState                                                          *)
(***************************************************************************)
addToJsonState ==
    [pir |-> pirValues, ldr |-> ldrValues, lastPirTriggeredTime |-> lastPirTriggeredTime,
     lastOnManual |-> lastOnManual, ldrThreshold |-> ldrThreshold, stayOnTime |-> stayOnTime]

AddToJsonState ==
    /\ phase = "running"
    /\ ret' = Returned("state", addToJsonState, TRUE)
    /\ op' = "addToJsonState"
    /\ cmds' = <<>>
    /\ arg' = "none"
    /\ UNCHANGED <<phase, doc, config, ldrValues, pirValues, lastTime, lastOnManual,
                   lastPirTriggeredTime, bri, briLast, now, ticks, boots, sincePoll,
                   lastOnKind, saved, quiet, sinceMotion, offBri>>

(***************************************************************************)
(* addToConfig                                                             *)
(***************************************************************************)
addToConfig ==
    MkDoc(AllKeys, SerializePins(pirPins), SerializePins(ldrPins), ldrThreshold,
          stayOnTime, ldrKnownResistor, ldrVoltage)

AddToConfig ==
    /\ phase = "running"
    /\ doc' = addToConfig
    /\ saved' = [valid |-> TRUE,
                 cfg |-> CfgValue(ldrPins, pirPins, ldrThreshold, stayOnTime,
                                  ldrKnownResistor, ldrVoltage)]
    /\ op' = "addToConfig"
    /\ cmds' = <<>>
    /\ ret' = NoRet
    /\ arg' = "none"
    /\ UNCHANGED <<phase, config, ldrValues, pirValues, lastTime, lastOnManual,
                   lastPirTriggeredTime, bri, briLast, now, ticks, boots, sincePoll,
                   lastOnKind, quiet, sinceMotion, offBri>>

(***************************************************************************)
(* Environment: the clock, and a restart of the device.                    *)
(***************************************************************************)
Min(a, b) == IF a < b THEN a ELSE b

Tick ==
    /\ phase = "running"
    /\ ticks < MaxTicks
    /\ \E s \in TickSteps :
        /\ now' = (now + s) % ClockMod
        /\ sincePoll' = IF sincePoll = -1 THEN -1 ELSE Min(sincePoll + s, LoopInterval + 1)
        /\ sinceMotion' = Elapse(sinceMotion, s, ClockMod)
    /\ ticks' = ticks + 1
    /\ op' = "tick"
    /\ arg' = "none"
    /\ ret' = NoRet
    /\ UNCHANGED <<phase, doc, config, ldrValues, pirValues, lastTime, lastOnManual,
                   lastPirTriggeredTime, bri, briLast, boots, cmds, lastOnKind, saved, quiet,
                   offBri>>

Reboot ==
    /\ phase = "running"
    /\ boots < MaxBoots
    /\ ldrPins' = <<>>
    /\ pirPins' = <<>>
    /\ ldrThreshold' = Uninit
    /\ stayOnTime' = Uninit
    /\ ldrKnownResistor' = Uninit
    /\ ldrVoltage' = Uninit
    /\ ldrValues' = <<>>
    /\ pirValues' = <<>>
    /\ lastTime' = 0
    /\ lastOnManual' = FALSE
    /\ lastPirTriggeredTime' = 0
    /\ phase' = "boot"
    /\ bri' \in BriValues
    /\ briLast' \in BriValues
    /\ now' = 0
    /\ ticks' = 0
    /\ boots' = boots + 1
    /\ op' = "none"
    /\ cmds' = <<>>
    /\ sincePoll' = -1
    /\ lastOnKind' = "none"
    /\ arg' = "none"
    /\ ret' = NoRet
    /\ sinceMotion' = -1
    /\ offBri' = -1
    /\ UNCHANGED <<doc, saved, quiet>>

(***************************************************************************)
(* The device from power-up: the host loads the settings, calls setup and  *)
(* then calls loop and the state hook for as long as it runs.              *)
(***************************************************************************)
Next ==
    \/ ReadFromConfig
    \/ Setup
    \/ Loop
    \/ ReadFromJsonState
    \/ Tick

Spec == Init /\ [][Next]_vars

(***************************************************************************)
(* The running controller under any configuration: the fields that         *)
(* readFromConfig and setup assign are drawn from sets, the empty pin      *)
(* lists included.                                                         *)
(***************************************************************************)
PollPirPins == {<<>>, <<SetupPirPin>>}
PollLdrPins == {<<>>, <<SetupLdrPin>>}
PollStayOnTimes == {0, DefaultStayOnTime, SetupStayOnTime}

InitPoll ==
    /\ Started
    /\ phase = "running"
    /\ doc = DocNone
    /\ pirPins \in PollPirPins
    /\ ldrPins \in PollLdrPins
    /\ ldrThreshold = SetupLdrThreshold
    /\ stayOnTime \in PollStayOnTimes
    /\ ldrKnownResistor = SetupLdrKnownResistor
    /\ ldrVoltage = SetupLdrVoltage
    /\ ldrValues = <<>>
    /\ pirValues = <<>>
    /\ lastTime = 0
    /\ lastOnManual = FALSE
    /\ lastPirTriggeredTime = 0

NextPoll ==
    \/ Loop
    \/ ReadFromJsonState
    \/ Tick

PollSpec == InitPoll /\ [][NextPoll]_vars

(***************************************************************************)
(* The configuration path: addToConfig writes the document, the device     *)
(* restarts and reads it back, or the host hands the document to a running *)
(* controller.                                                             *)
(***************************************************************************)
CfgPirPins == {<<>>, <<13>>, <<4, 13>>, <<65535, 0, 107>>}
CfgLdrPins == {<<>>, <<32>>, <<34, 32>>}
CfgThresholds == {0, 500, 4095}
CfgStayOnTimes == {0, 500, 60000}
CfgResistors == {4700, 100000}
CfgVoltages == {3, 5}

InitCfg ==
    /\ Started
    /\ phase = "running"
    /\ doc \in DocChoices
    /\ pirPins \in CfgPirPins
    /\ ldrPins \in CfgLdrPins
    /\ ldrThreshold \in CfgThresholds
    /\ stayOnTime \in CfgStayOnTimes
    /\ ldrKnownResistor \in CfgResistors
    /\ ldrVoltage \in CfgVoltages
    /\ ldrValues = <<>>
    /\ pirValues = <<>>
    /\ lastTime = 0
    /\ lastOnManual = FALSE
    /\ lastPirTriggeredTime = 0

\* readFromConfig called on a controller that is already set up
ReloadConfig ==
    /\ phase = "running"
    /\ readFromConfig(doc)
    /\ op' = "reload"
    /\ cmds' = <<>>
    /\ ret' \in FallOffEnd
    /\ arg' = "none"
    /\ UNCHANGED <<phase, doc, ldrValues, pirValues, lastTime, lastOnManual,
                   lastPirTriggeredTime, bri, briLast, now, ticks, boots, sincePoll,
                   lastOnKind, saved, quiet, sinceMotion, offBri>>

NextCfg ==
    \/ AddToConfig
    \/ Reboot
    \/ ReadFromConfig
    \/ Setup
    \/ ReloadConfig

CfgSpec == InitCfg /\ [][NextCfg]_vars

(***************************************************************************)
(* Every callback of a running controller, on controllers with up to two   *)
(* pins of each kind.  The readings the controller holds at the start are  *)
(* drawn from the whole range of the ADC: 0, and 2^12, which the formula   *)
(* of getResistanceFromRawVoltage maps to 0.                               *)
(***************************************************************************)
HookPirPins == {<<>>, <<SetupPirPin>>, <<4, SetupPirPin>>}
HookLdrPins == {<<>>, <<SetupLdrPin>>, <<34, SetupLdrPin>>}
HookReadings == {0, 400, 600, 2 ^ AdcPrecision}

InitHook ==
    /\ phase = "running"
    /\ doc = DocNone
    /\ pirPins \in HookPirPins
    /\ ldrPins \in HookLdrPins
    /\ ldrThreshold = SetupLdrThreshold
    /\ stayOnTime = SetupStayOnTime
    /\ ldrKnownResistor = SetupLdrKnownResistor
    /\ ldrVoltage = SetupLdrVoltage
    /\ \/ ldrValues = <<>> /\ pirValues = <<>>               \* no poll yet
       \/ /\ ldrValues \in [1..Len(ldrPins) -> HookReadings]  \* as a poll left them
          /\ pirValues = [i \in 1..Len(pirPins) |-> FALSE]
    /\ lastTime = 0
    /\ lastOnManual = FALSE
    /\ lastPirTriggeredTime = 0
    /\ bri = 0
    /\ briLast = 128
    /\ now = LoopInterval + 1
    /\ ticks = MaxTicks
    /\ boots = 1
    /\ op = "none"
    /\ cmds = <<>>
    /\ sincePoll = -1
    /\ lastOnKind = "none"
    /\ saved = [valid |-> FALSE, cfg |-> NoCfg]
    /\ quiet = FALSE
    /\ arg = "none"
    /\ ret = NoRet
    /\ sinceMotion = -1
    /\ offBri = -1

NextHook ==
    \/ Loop
    \/ ReadFromJsonState
    \/ ReadFromJsonStateCall
    \/ AddToJsonInfo
    \/ AddToJsonState
    \/ AddToConfig
    \/ ReloadConfig

HookSpec == InitHook /\ [][NextHook]_vars

(***************************************************************************)
(* The device left running: the clock goes on for ever, round its whole    *)
(* range, in steps of AdvanceStep, and the host calls loop() on every pass *)
(* of its main loop, so no clock value goes by without a loop() call.      *)
(* From some moment on the room is quiet.                                  *)
(***************************************************************************)
AdvanceStep == ClockMod \div 32

InitLive ==
    /\ Constructed
    /\ phase = "boot"
    /\ doc = DocNone
    /\ bri = 128
    /\ briLast = 128
    /\ now = 0
    /\ ticks = MaxTicks
    /\ boots = 1
    /\ op = "none"
    /\ cmds = <<>>
    /\ sincePoll = -1
    /\ lastOnKind = "none"
    /\ saved = [valid |-> FALSE, cfg |-> NoCfg]
    /\ quiet = FALSE
    /\ arg = "none"
    /\ ret = NoRet
    /\ sinceMotion = -1
    /\ offBri = -1

Advance ==
    /\ phase = "running"
    /\ op \in {"poll", "skip"}
    /\ now' = (now + AdvanceStep) % ClockMod
    /\ sincePoll' = IF sincePoll = -1 THEN -1 ELSE Min(sincePoll + AdvanceStep, LoopInterval + 1)
    /\ sinceMotion' = Elapse(sinceMotion, ClockMod, ClockMod)   \* not measured on this clock: at its cap
    /\ op' = "tick"
    /\ arg' = "none"
    /\ ret' = NoRet
    /\ UNCHANGED <<phase, doc, config, ldrValues, pirValues, lastTime, lastOnManual,
                   lastPirTriggeredTime, bri, briLast, ticks, boots, cmds, lastOnKind,
                   saved, quiet, offBri>>

GoQuiet ==
    /\ phase = "running"
    /\ ~quiet
    /\ quiet' = TRUE
    /\ UNCHANGED <<phase, doc, config, ldrValues, pirValues, lastTime, lastOnManual,
                   lastPirTriggeredTime, bri, briLast, now, ticks, boots, op, cmds,
                   sincePoll, lastOnKind, saved, arg, ret, sinceMotion, offBri>>

NextLive ==
    \/ ReadFromConfig
    \/ Setup
    \/ Loop
    \/ ReadFromJsonState
    \/ Advance
    \/ GoQuiet

LiveSpec ==
    /\ InitLive
    /\ [][NextLive]_vars
    /\ WF_vars(ReadFromConfig)
    /\ WF_vars(Setup)
    /\ WF_vars(Loop)
    /\ SF_vars(Advance)

(***************************************************************************)
(* Properties.                                                             *)
(***************************************************************************)
\* some PIR reading of pv is true
MotionIn(pv) == \E i \in DOMAIN pv : pv[i] = TRUE

\* some LDR reading of lv is below thr
DarkIn(lv, thr) == \E i \in DOMAIN lv : lv[i] < thr

\* t - since in the clock's unsigned arithmetic
ElapsedMs(t, since) == (t - since + ClockMod) % ClockMod

\* a command of rule r is among c
HasCmd(c, r) == \E i \in DOMAIN c : c[i].rule = r

\* a step that is a loop() call which runs updateSensors
PollStep == op' = "poll" /\ Loop

\* C1: a poll that starts with bri = 0 and reads motion and darkness issues exactly
\* one command, with CALL_MODE_NO_NOTIFY, sets bri to briLast and leaves
\* lastOnManual false.
C1_AutoOn ==
    [][(PollStep /\ bri = 0 /\ MotionIn(pirValues') /\ DarkIn(ldrValues', ldrThreshold))
        => /\ Len(cmds') = 1
           /\ cmds'[1].rule = "on"
           /\ cmds'[1].mode = CALL_MODE_NO_NOTIFY
           /\ cmds'[1].bri = briLast
           /\ bri' = briLast
           /\ briLast' = briLast
           /\ lastOnManual' = FALSE]_vars

C1_Witness ==
    /\ op = "poll"
    /\ Len(cmds) = 1
    /\ cmds[1].rule = "on"
    /\ bri = briLast
    /\ bri # 0
    /\ ~lastOnManual
    /\ MotionIn(pirValues)
    /\ DarkIn(ldrValues, ldrThreshold)

\* C2: a poll that starts with bri # 0 and lastOnManual false, and for which
\* millis() - lastPirTriggeredTime > stayOnTime after the timestamp update, issues
\* exactly one command, with CALL_MODE_NO_NOTIFY: briLast takes the brightness and
\* bri becomes 0.
C2_AutoOff ==
    [][(PollStep /\ bri # 0 /\ ~lastOnManual
            /\ ElapsedMs(now', lastPirTriggeredTime') > stayOnTime)
        => /\ Len(cmds') = 1
           /\ cmds'[1].rule = "off"
           /\ cmds'[1].mode = CALL_MODE_NO_NOTIFY
           /\ briLast' = bri
           /\ bri' = 0]_vars

C2_Witness ==
    /\ op = "poll"
    /\ Len(cmds) = 1
    /\ cmds[1].rule = "off"
    /\ bri = 0
    /\ briLast # 0
    /\ ElapsedMs(now, lastPirTriggeredTime) > stayOnTime

\* C3: a poll that starts with lastOnManual true issues no automatic-off command
\* and does not set a nonzero brightness to 0, whatever time has passed since the
\* last motion.
C3_ManualNeverOff ==
    [][(PollStep /\ lastOnManual)
        => /\ ~HasCmd(cmds', "off")
           /\ (bri # 0 => bri' = bri)]_vars

C3_Witness ==
    /\ op = "poll"
    /\ lastOnManual
    /\ bri # 0
    /\ cmds = <<>>
    /\ ElapsedMs(now, lastPirTriggeredTime) > stayOnTime

\* C6: no poll issues more than one command: the automatic-on rule and the
\* automatic-off rule never both fire in one updateSensors call.
C6_AtMostOneCommand ==
    Len(cmds) <= 1 /\ ~(HasCmd(cmds, "on") /\ HasCmd(cmds, "off"))

C6_Witness ==
    /\ op = "poll"
    /\ Len(cmds) = 1
    /\ cmds[1].rule = "on"
    /\ bri # 0
    /\ stayOnTime = 0
    /\ now # lastPirTriggeredTime

\* C4: once the room is quiet (no PIR reads 1, no client sends on = true), lights
\* that are on with lastOnManual false do not stay on: the module issues the
\* automatic-off command, unless a client switches the lights off first.
C4_EventuallyOff ==
    (quiet /\ bri # 0 /\ ~lastOnManual)
        ~> \/ op = "poll" /\ HasCmd(cmds, "off") /\ bri = 0
           \/ op = "readFromJsonState" /\ bri = 0

C4_Witness ==
    /\ quiet
    /\ op = "poll"
    /\ HasCmd(cmds, "off")
    /\ bri = 0
    /\ lastPirTriggeredTime # 0

\* C5: any two updateSensors runs are more than 300 ms apart: a loop() call made
\* 300 ms or less after the previous run does not run it again.
C5_RateLimited ==
    [][PollStep => (sincePoll = -1 \/ sincePoll > LoopInterval)]_vars

C8_FlagTellsLastOn ==
    (bri # 0 /\ lastOnKind # "none") => (lastOnManual <=> lastOnKind = "manual")

\* C9: after readFromConfig and setup every member present in the persisted
\* document decides the controller's field.
C9_PersistedWins ==
    phase = "running" =>
        /\ "ldrThreshold" \in doc.keys => ldrThreshold = doc.ldrThreshold
        /\ "stayOnTime" \in doc.keys => stayOnTime = doc.stayOnTime
        /\ "ldrKnownResistor" \in doc.keys => ldrKnownResistor = doc.ldrKnownResistor
        /\ "ldrVoltage" \in doc.keys => ldrVoltage = doc.ldrVoltage
        /\ ("pirPins" \in doc.keys /\ doc.pirPins # <<>>) => pirPins = ParsePins(doc.pirPins)
        /\ ("ldrPins" \in doc.keys /\ doc.ldrPins # <<>>) => ldrPins = ParsePins(doc.ldrPins)

\* a step that is a readFromConfig call
ImportStep == op' \in {"readFromConfig", "reload"} /\ (ReadFromConfig \/ ReloadConfig)

C11_ImportReturnsTrue ==
    op \in {"readFromConfig", "reload"} => (ret.kind = "bool" /\ ret.defined /\ ret.value = TRUE)

\* a step that is the readFromJsonState call by itself
StateCallStep == op' = "readFromJsonStateCall" /\ ReadFromJsonStateCall

\* C12: a readFromJsonState call sets lastOnManual when on is true and leaves it
\* as it was when on is false or absent, so it never clears it; the last-motion
\* timestamp, the readings, the configuration, lastTime, bri and briLast are
\* as before the call.
C12_ImportStateFrame ==
    [][StateCallStep
        => /\ lastOnManual' = (IF arg' = "true" THEN TRUE ELSE lastOnManual)
           /\ lastOnManual => lastOnManual'
           /\ UNCHANGED <<lastPirTriggeredTime, pirValues, ldrValues, config, lastTime,
                          bri, briLast>>]_vars

C12_Witness ==
    /\ op = "readFromJsonStateCall"
    /\ arg = "false"
    /\ lastOnManual
    /\ bri # 0
    /\ pirValues # <<>>

\* C13: getAvgLdrResistance gives a value the code defines when a reading is 0
\* and when there are no readings, and gives 0 for the single reading 2^12.
C13_NoDivisionFault ==
    op = "addToJsonInfo" =>
        /\ (ldrValues = <<>> \/ \E i \in 1..Len(ldrValues) : ldrValues[i] = 0) => ret.defined
        /\ ldrValues = <<2 ^ AdcPrecision>> => (ret.defined /\ ret.value.avg = 0)

\* C14: isLdrTriggered is true exactly if some reading is below ldrThreshold,
\* whatever the order of the readings and never for an empty list or a reading
\* equal to the threshold; a poll of dark lights that reads motion switches them
\* on exactly in that case.
C14_DarkEnough ==
    /\ [](isLdrTriggered(ldrValues, ldrThreshold) <=> DarkIn(ldrValues, ldrThreshold))
    /\ [][(PollStep /\ bri = 0 /\ MotionIn(pirValues'))
            => (HasCmd(cmds', "on") <=> DarkIn(ldrValues', ldrThreshold))]_vars

C14_Witness ==
    /\ op = "poll"
    /\ ldrValues = <<600, 400>>
    /\ ldrThreshold = 500
    /\ HasCmd(cmds, "on")

\* C15: a poll sets lastPirTriggeredTime to the clock it reads at line 63 if some
\* PIR reading of the poll is set, and leaves it as it was if none is (none is,
\* when there are no PIR pins); no other step changes it.
C15_TimestampIffMotion ==
    [][lastPirTriggeredTime' =
            (IF PollStep /\ MotionIn(pirValues') THEN now ELSE lastPirTriggeredTime)]_vars

C15_Witness ==
    /\ op = "poll"
    /\ pirValues = <<FALSE, TRUE>>
    /\ lastPirTriggeredTime = LoopInterval + 1
    /\ now = LoopInterval + 1

\* C16: a poll issues the automatic-off command only when more than stayOnTime
\* ms have passed, by the clock it reads at line 86, since motion was last
\* recorded.
C16_NoOffSoonAfterMotion ==
    [][(PollStep /\ HasCmd(cmds', "off") /\ sinceMotion' # -1)
        => sinceMotion' > stayOnTime]_vars

C16_Witness ==
    /\ op = "poll"
    /\ HasCmd(cmds, "off")
    /\ stayOnTime = SetupStayOnTime
    /\ sinceMotion = stayOnTime + 1

\* C17: a poll never changes briLast to 0, and an automatic on that follows an
\* automatic off, with no change of bri or briLast by the host in between, sets
\* bri to the brightness from before the automatic off, which is not 0.
C17_RestoresBrightness ==
    [][PollStep
        => /\ briLast' # briLast => briLast' # 0
           /\ (HasCmd(cmds', "on") /\ offBri # -1) => (bri' = offBri /\ bri' # 0)]_vars

C17_Witness ==
    /\ op = "poll"
    /\ HasCmd(cmds, "on")
    /\ offBri = 255
    /\ bri = 255

\* C18: a boot (readFromConfig on the persisted document, then setup) followed by
\* addToConfig writes back the pin lists that the persisted document held.
C18_PinsStable ==
    [][(op = "setup" /\ op' = "addToConfig" /\ AddToConfig)
        => /\ ("pirPins" \in doc.keys /\ doc.pirPins # <<>>) => doc'.pirPins = doc.pirPins
           /\ ("ldrPins" \in doc.keys /\ doc.ldrPins # <<>>) => doc'.ldrPins = doc.ldrPins]_vars

\* C19: while less than 2^ClockBits ms have passed since motion was last recorded,
\* the unsigned difference millis() - lastPirTriggeredTime exceeds stayOnTime
\* exactly if the time passed does, also when the clock has wrapped in between,
\* and the automatic-off command is issued exactly then (lights on, lastOnManual
\* false).
C19_WrapSafe ==
    [][(PollStep /\ sinceMotion' # -1 /\ sinceMotion' < ClockMod)
        => /\ MillisDiff(now', lastPirTriggeredTime') > stayOnTime
                <=> sinceMotion' > stayOnTime
           /\ HasCmd(cmds', "off")
                <=> (bri # 0 /\ ~lastOnManual /\ sinceMotion' > stayOnTime)]_vars

C19_Witness ==
    /\ op = "poll"
    /\ HasCmd(cmds, "off")
    /\ now < lastPirTriggeredTime
    /\ sinceMotion > stayOnTime
    /\ sinceMotion < ClockMod

====
